---- MODULE Spec2Model ----
(***************************************************************************)
(* The game-state engine of the 4x4x4 tic-tac-toe (src/src/lib/gameLogic.ts) *)
(* and the handlers of src/src/components/Game.tsx that drive it.           *)
(*                                                                         *)
(* null is modelled by a sentinel of the value's own shape: NULL for a     *)
(* cell, NullPos for a Position, NullLine for a WinningLine.  A Move keeps *)
(* its player, position and type; its timestamp (Date.now()) and reason    *)
(* are written by the code and read by no operation, and are left out.     *)
(* Of the replay state the speed (the delay of the autoplay interval) and  *)
(* recentlyRemovedMove (an animation) are left out.                        *)
(*                                                                         *)
(* Spec and ReplaySpec take the timeout skip as one step that may come at  *)
(* any time while the game is playing.  TimerSpec follows the countdown,   *)
(* the timeout effect, the click handler and the render that applies the   *)
(* queued state updates as steps of their own.                             *)
(***************************************************************************)
EXTENDS Integers, Sequences, FiniteSets, TLC

BOARD_SIZE == 4

\* ---- bounds of the model ------------------------------------------------
\* Cell clicks are drawn from the first NumPlayCells cells in the order
\* x + 4y + 16z: (0,0,0) (1,0,0) (2,0,0) (3,0,0), then (0,1,0) ...
NumPlayCells == 4
\* A timeout skip is taken only while the history holds fewer skips.
MaxSkips == 1
\* The turn time limit in seconds, and the number of clicks that may wait
\* for one render.
TurnTimeLimit == 2
MaxPending == 2

\* ---- types (src/src/types/game.ts) --------------------------------------
Coord == 0..(BOARD_SIZE - 1)

Player == {"X", "O"}

NULL == "null"

CellValue == Player \cup {NULL}

GameStatus == {"playing", "win", "draw"}

Pos(x, y, z) == [x |-> x, y |-> y, z |-> z]

Positions == {Pos(x, y, z) : x \in Coord, y \in Coord, z \in Coord}

NullPos == [x |-> -1, y |-> -1, z |-> -1]

NullLine == [positions |-> <<>>, winner |-> NULL]

Cell(board, p) == board[p.x][p.y][p.z]

Opponent(player) == IF player = "X" THEN "O" ELSE "X"

\* ---- createEmptyBoard / createInitialState ------------------------------
createEmptyBoard == [x \in Coord |-> [y \in Coord |-> [z \in Coord |-> NULL]]]

createInitialState ==
  [ board            |-> createEmptyBoard,
    currentPlayer    |-> "X",
    status           |-> "playing",
    winningLine      |-> NullLine,
    moveCount        |-> 0,
    moveHistory      |-> <<>>,
    threats          |-> <<>>,
    lastMovePosition |-> NullPos ]

\* ---- generateAllWinningLines --------------------------------------------
\* Each family is the sequence its loop nest pushes, outer loop first; k
\* counts the pushes of the family from 0 and i is the innermost index.
\* 1. for y, for z: the row x = 0..3
RowLines ==
  [k \in 1..(BOARD_SIZE * BOARD_SIZE) |->
     [i \in 1..BOARD_SIZE |->
        Pos(i - 1, (k - 1) \div BOARD_SIZE, (k - 1) % BOARD_SIZE)]]

\* 2. for x, for z: the column y = 0..3
ColumnLines ==
  [k \in 1..(BOARD_SIZE * BOARD_SIZE) |->
     [i \in 1..BOARD_SIZE |->
        Pos((k - 1) \div BOARD_SIZE, i - 1, (k - 1) % BOARD_SIZE)]]

\* 3. for x, for y: the pillar z = 0..3
PillarLines ==
  [k \in 1..(BOARD_SIZE * BOARD_SIZE) |->
     [i \in 1..BOARD_SIZE |->
        Pos((k - 1) \div BOARD_SIZE, (k - 1) % BOARD_SIZE, i - 1)]]

\* XYDiagonals with the anti-diagonal wrapped round: y = (4 - i) % 4.
XYDiagonals_Wrapped ==
  [k \in 1..(2 * BOARD_SIZE) |->
     [i \in 1..BOARD_SIZE |->
        IF (k - 1) % 2 = 0
          THEN Pos(i - 1, i - 1, (k - 1) \div 2)
          ELSE Pos(i - 1, (BOARD_SIZE - (i - 1)) % BOARD_SIZE, (k - 1) \div 2)]]

\* 4. for z: push(diag1, diag2)
XYDiagonals ==
  [k \in 1..(2 * BOARD_SIZE) |->
     [i \in 1..BOARD_SIZE |->
        IF (k - 1) % 2 = 0
          THEN Pos(i - 1, i - 1, (k - 1) \div 2)
          ELSE Pos(i - 1, BOARD_SIZE - 1 - (i - 1), (k - 1) \div 2)]]

\* 5. for y: push(diag1, diag2)
XZDiagonals ==
  [k \in 1..(2 * BOARD_SIZE) |->
     [i \in 1..BOARD_SIZE |->
        IF (k - 1) % 2 = 0
          THEN Pos(i - 1, (k - 1) \div 2, i - 1)
          ELSE Pos(i - 1, (k - 1) \div 2, BOARD_SIZE - 1 - (i - 1))]]

\* YZDiagonals pasted from the XZ loop and left unchanged.
YZDiagonals_CopyOfXZ == XZDiagonals

\* 6. for x: push(diag1, diag2)
YZDiagonals ==
  [k \in 1..(2 * BOARD_SIZE) |->
     [i \in 1..BOARD_SIZE |->
        IF (k - 1) % 2 = 0
          THEN Pos((k - 1) \div 2, i - 1, i - 1)
          ELSE Pos((k - 1) \div 2, i - 1, BOARD_SIZE - 1 - (i - 1))]]

\* 7. spaceDiags[0..3]
SpaceDiagonals ==
  << [i \in 1..BOARD_SIZE |-> Pos(i - 1, i - 1, i - 1)],
     [i \in 1..BOARD_SIZE |-> Pos(BOARD_SIZE - 1 - (i - 1), i - 1, i - 1)],
     [i \in 1..BOARD_SIZE |-> Pos(i - 1, BOARD_SIZE - 1 - (i - 1), i - 1)],
     [i \in 1..BOARD_SIZE |-> Pos(i - 1, i - 1, BOARD_SIZE - 1 - (i - 1))] >>

generateAllWinningLines ==
  RowLines \o ColumnLines \o PillarLines \o XYDiagonals \o XZDiagonals
    \o YZDiagonals \o SpaceDiagonals

ALL_WINNING_LINES == generateAllWinningLines

getTotalWinningLines == Len(ALL_WINNING_LINES)

\* ---- checkLine / checkWinner --------------------------------------------
\* checkLine whose loop stops one cell short.
checkLine_SkipsLastCell(board, line) ==
  LET firstValue == Cell(board, line[1]) IN
    IF firstValue = NULL
      THEN [isWin |-> FALSE, player |-> NULL]
      ELSE IF \E i \in 2..(Len(line) - 1) : Cell(board, line[i]) # firstValue
        THEN [isWin |-> FALSE, player |-> NULL]
        ELSE [isWin |-> TRUE, player |-> firstValue]

\* checkLine that is content with 4 marks of any player.
checkLine_AnyMarks(board, line) ==
  LET firstValue == Cell(board, line[1]) IN
    IF firstValue = NULL
      THEN [isWin |-> FALSE, player |-> NULL]
      ELSE IF \E i \in 2..Len(line) : Cell(board, line[i]) = NULL
        THEN [isWin |-> FALSE, player |-> NULL]
        ELSE [isWin |-> TRUE, player |-> firstValue]

checkLine(board, line) ==
  LET firstValue == Cell(board, line[1]) IN
    IF firstValue = NULL
      THEN [isWin |-> FALSE, player |-> NULL]
      ELSE IF \E i \in 2..Len(line) : Cell(board, line[i]) # firstValue
        THEN [isWin |-> FALSE, player |-> NULL]
        ELSE [isWin |-> TRUE, player |-> firstValue]

\* checkWinner that keeps looping and returns the last line that wins.
checkWinner_LastWins(board) ==
  LET wins == {i \in 1..Len(ALL_WINNING_LINES) :
                 LET result == checkLine(board, ALL_WINNING_LINES[i])
                 IN result.isWin /\ result.player # NULL}
  IN IF wins = {}
       THEN NullLine
       ELSE LET last == CHOOSE i \in wins : \A j \in wins : j <= i
            IN [positions |-> ALL_WINNING_LINES[last],
                winner    |-> checkLine(board, ALL_WINNING_LINES[last]).player]

\* The for-of loop returns at the first line that wins: the winning line of
\* the least index.
checkWinner(board) ==
  LET wins == {i \in 1..Len(ALL_WINNING_LINES) :
                 LET result == checkLine(board, ALL_WINNING_LINES[i])
                 IN result.isWin /\ result.player # NULL}
  IN IF wins = {}
       THEN NullLine
       ELSE LET first == CHOOSE i \in wins : \A j \in wins : i <= j
            IN [positions |-> ALL_WINNING_LINES[first],
                winner    |-> checkLine(board, ALL_WINNING_LINES[first]).player]

\* ---- detectThreats ------------------------------------------------------
\* lineThreat whose O branch was pasted from the X branch with its player.
lineThreat_OThreatsAsX(board, line) ==
  LET xCount  == Cardinality({i \in 1..Len(line) : Cell(board, line[i]) = "X"})
      oCount  == Cardinality({i \in 1..Len(line) : Cell(board, line[i]) = "O"})
      empties == {i \in 1..Len(line) : Cell(board, line[i]) \notin Player}
      emptyCell == IF empties = {}
                     THEN NullPos
                     ELSE line[CHOOSE i \in empties : \A j \in empties : j <= i]
  IN IF xCount = 3 /\ oCount = 0 /\ emptyCell # NullPos
       THEN << [player |-> "X", line |-> line, emptyCell |-> emptyCell] >>
       ELSE IF oCount = 3 /\ xCount = 0 /\ emptyCell # NullPos
         THEN << [player |-> "X", line |-> line, emptyCell |-> emptyCell] >>
         ELSE << >>

\* One pass of the loop body for a line: the threat it pushes, if any.
lineThreat(board, line) ==
  LET xCount  == Cardinality({i \in 1..Len(line) : Cell(board, line[i]) = "X"})
      oCount  == Cardinality({i \in 1..Len(line) : Cell(board, line[i]) = "O"})
      empties == {i \in 1..Len(line) : Cell(board, line[i]) \notin Player}
      \* emptyCell is overwritten by each empty cell met: the last one stays
      emptyCell == IF empties = {}
                     THEN NullPos
                     ELSE line[CHOOSE i \in empties : \A j \in empties : j <= i]
  IN IF xCount = 3 /\ oCount = 0 /\ emptyCell # NullPos
       THEN << [player |-> "X", line |-> line, emptyCell |-> emptyCell] >>
       ELSE IF oCount = 3 /\ xCount = 0 /\ emptyCell # NullPos
         THEN << [player |-> "O", line |-> line, emptyCell |-> emptyCell] >>
         ELSE << >>

\* The pushes of the loop over lines lo..hi, in the order of the lines (the
\* range is halved to keep the evaluation shallow).
RECURSIVE threatsOfLines(_, _, _)
threatsOfLines(board, lo, hi) ==
  IF lo > hi THEN << >>
  ELSE IF lo = hi THEN lineThreat(board, ALL_WINNING_LINES[lo])
  ELSE LET mid == (lo + hi) \div 2
       IN threatsOfLines(board, lo, mid) \o threatsOfLines(board, mid + 1, hi)

detectThreats(board) == threatsOfLines(board, 1, Len(ALL_WINNING_LINES))

\* ---- isBoardFull --------------------------------------------------------
isBoardFull(board) ==
  \A x \in Coord : \A y \in Coord : \A z \in Coord : board[x][y][z] # NULL

\* ---- makeMove -----------------------------------------------------------
\* moveStatus that tests the full board before the winner.
moveStatus_DrawFirst(winningLine, moveCount) ==
  IF moveCount = BOARD_SIZE * BOARD_SIZE * BOARD_SIZE THEN "draw"
  ELSE IF winningLine # NullLine THEN "win" ELSE "playing"

\* moveStatus that never declares a draw.
moveStatus_NeverDraw(winningLine, moveCount) ==
  IF winningLine # NullLine THEN "win" ELSE "playing"

moveStatus(winningLine, moveCount) ==
  LET isDraw == winningLine = NullLine
                /\ moveCount = BOARD_SIZE * BOARD_SIZE * BOARD_SIZE
  IN IF winningLine # NullLine THEN "win"
     ELSE IF isDraw THEN "draw" ELSE "playing"

\* moveThreats that detects threats whether or not there is a winner.
moveThreats_Always(winningLine, newBoard) == detectThreats(newBoard)

\* moveThreats with the branches of its conditional swapped.
moveThreats_Swapped(winningLine, newBoard) ==
  IF winningLine # NullLine THEN detectThreats(newBoard) ELSE << >>

\* moveThreats that keeps the threats of X only.
moveThreats_OnlyX(winningLine, newBoard) ==
  LET ofX(threat) == threat.player = "X" IN
    IF winningLine # NullLine
      THEN << >>
      ELSE SelectSeq(detectThreats(newBoard), ofX)

moveThreats(winningLine, newBoard) ==
  IF winningLine # NullLine THEN << >> ELSE detectThreats(newBoard)

\* moveRejected that looks at the cell and not at the status.
moveRejected_CellOnly(state, position) ==
  Cell(state.board, position) # NULL

\* the early return of makeMove
moveRejected(state, position) ==
  state.status # "playing" \/ Cell(state.board, position) # NULL

\* makeMove that looks for the winner on the board before the move.
makeMove_ChecksOldBoard(state, position) ==
  IF moveRejected(state, position)
    THEN state
    ELSE
      LET newBoard ==
            [state.board EXCEPT
               ![position.x][position.y][position.z] = state.currentPlayer]
          newMove == [player   |-> state.currentPlayer,
                      position |-> position,
                      type     |-> "move"]
          winningLine == checkWinner(state.board)
          moveCount   == state.moveCount + 1
      IN [ board            |-> newBoard,
           currentPlayer    |-> Opponent(state.currentPlayer),
           status           |-> moveStatus(winningLine, moveCount),
           winningLine      |-> winningLine,
           moveCount        |-> moveCount,
           moveHistory      |-> Append(state.moveHistory, newMove),
           threats          |-> moveThreats(winningLine, newBoard),
           lastMovePosition |-> position ]

\* makeMove that leaves the turn with the player whose move has won.
makeMove_WinnerKeepsTurn(state, position) ==
  IF moveRejected(state, position)
    THEN state
    ELSE
      LET newBoard ==
            [state.board EXCEPT
               ![position.x][position.y][position.z] = state.currentPlayer]
          newMove == [player   |-> state.currentPlayer,
                      position |-> position,
                      type     |-> "move"]
          winningLine == checkWinner(newBoard)
          moveCount   == state.moveCount + 1
      IN [ board            |-> newBoard,
           currentPlayer    |-> IF winningLine # NullLine
                                  THEN state.currentPlayer
                                  ELSE Opponent(state.currentPlayer),
           status           |-> moveStatus(winningLine, moveCount),
           winningLine      |-> winningLine,
           moveCount        |-> moveCount,
           moveHistory      |-> Append(state.moveHistory, newMove),
           threats          |-> moveThreats(winningLine, newBoard),
           lastMovePosition |-> position ]

makeMove(state, position) ==
  IF moveRejected(state, position)
    THEN state
    ELSE
      \* the copy of state.board whose cell (x, y, z) holds the current player
      LET newBoard ==
            [state.board EXCEPT
               ![position.x][position.y][position.z] = state.currentPlayer]
          newMove == [player   |-> state.currentPlayer,
                      position |-> position,
                      type     |-> "move"]
          winningLine == checkWinner(newBoard)
          moveCount   == state.moveCount + 1
      IN [ board            |-> newBoard,
           currentPlayer    |-> Opponent(state.currentPlayer),
           status           |-> moveStatus(winningLine, moveCount),
           winningLine      |-> winningLine,
           moveCount        |-> moveCount,
           moveHistory      |-> Append(state.moveHistory, newMove),
           threats          |-> moveThreats(winningLine, newBoard),
           lastMovePosition |-> position ]

\* ---- undoMove -----------------------------------------------------------
\* isAppliedMove without the filter: skip entries are replayed too.
isAppliedMove_KeepsSkips(move) == TRUE

isAppliedMove(move) == move.type # "skip" /\ move.position # NullPos

\* The rebuild loop of undoMove: the moves are written in order onto an
\* empty board, so a cell ends with the player of the last move on it.
rebuildBoard(moves) ==
  [x \in Coord |-> [y \in Coord |-> [z \in Coord |->
     LET written == {i \in 1..Len(moves) : moves[i].position = Pos(x, y, z)}
     IN IF written = {}
          THEN createEmptyBoard[x][y][z]
          ELSE moves[CHOOSE i \in written : \A j \in written : j <= i].player]]]

\* undoPlayer that hands the turn to the last remaining mover.
undoPlayer_LastMover(appliedMoves) ==
  IF Len(appliedMoves) > 0 THEN appliedMoves[Len(appliedMoves)].player ELSE "X"

\* currentPlayer of undoMove: lastMove ? opponent of lastMove.player : 'X'
undoPlayer(appliedMoves) ==
  IF Len(appliedMoves) > 0
    THEN Opponent(appliedMoves[Len(appliedMoves)].player)
    ELSE "X"

\* undoRejected without the test of the status.
undoRejected_EmptyOnly(state) == Len(state.moveHistory) = 0

\* undoRejected that refuses every finished game, drawn ones too.
undoRejected_AnyTerminal(state) ==
  IF Len(state.moveHistory) = 0 THEN TRUE ELSE state.status # "playing"

\* the two early returns of undoMove
undoRejected(state) ==
  IF Len(state.moveHistory) = 0 THEN TRUE ELSE state.status = "win"

\* undoMove that counts the entries left in the history, skips too.
undoMove_CountsSkips(state) ==
  IF undoRejected(state) THEN state
  ELSE
    LET newHistory   == SubSeq(state.moveHistory, 1, Len(state.moveHistory) - 1)
        appliedMoves == SelectSeq(newHistory, isAppliedMove)
        newBoard     == rebuildBoard(appliedMoves)
        hasLast      == Len(appliedMoves) > 0
        lastMove     == appliedMoves[Len(appliedMoves)]
    IN [ board            |-> newBoard,
         currentPlayer    |-> undoPlayer(appliedMoves),
         status           |-> "playing",
         winningLine      |-> NullLine,
         moveCount        |-> Len(newHistory),
         moveHistory      |-> newHistory,
         threats          |-> detectThreats(newBoard),
         lastMovePosition |-> IF hasLast THEN lastMove.position ELSE NullPos ]

undoMove(state) ==
  IF undoRejected(state) THEN state
  ELSE
    LET newHistory   == SubSeq(state.moveHistory, 1, Len(state.moveHistory) - 1)
        appliedMoves == SelectSeq(newHistory, isAppliedMove)
        newBoard     == rebuildBoard(appliedMoves)
        hasLast      == Len(appliedMoves) > 0
        lastMove     == appliedMoves[Len(appliedMoves)]
    IN [ board            |-> newBoard,
         currentPlayer    |-> undoPlayer(appliedMoves),
         status           |-> "playing",
         winningLine      |-> NullLine,
         moveCount        |-> Len(appliedMoves),
         moveHistory      |-> newHistory,
         threats          |-> detectThreats(newBoard),
         lastMovePosition |-> IF hasLast THEN lastMove.position ELSE NullPos ]

\* ---- isWinningPosition / isThreatPosition --------------------------------
\* isWinningPosition that compares x and y only.
isWinningPosition_IgnoresZ(winningLine, position) ==
  IF winningLine = NullLine
    THEN FALSE
    ELSE \E i \in 1..Len(winningLine.positions) :
           /\ winningLine.positions[i].x = position.x
           /\ winningLine.positions[i].y = position.y

isWinningPosition(winningLine, position) ==
  IF winningLine = NullLine
    THEN FALSE
    ELSE \E i \in 1..Len(winningLine.positions) :
           /\ winningLine.positions[i].x = position.x
           /\ winningLine.positions[i].y = position.y
           /\ winningLine.positions[i].z = position.z

\* the null that isThreatPosition returns
NullThreat == [player |-> NULL, line |-> << >>, emptyCell |-> NullPos]

\* isThreatPosition that returns the last threat on the cell.
isThreatPosition_LastMatch(threats, position, player) ==
  LET matches == {i \in 1..Len(threats) :
                    /\ ~(player # NULL /\ threats[i].player # player)
                    /\ threats[i].emptyCell.x = position.x
                    /\ threats[i].emptyCell.y = position.y
                    /\ threats[i].emptyCell.z = position.z}
  IN IF matches = {}
       THEN NullThreat
       ELSE threats[CHOOSE i \in matches : \A j \in matches : j <= i]

\* player is NULL when the optional argument is not given; the for-of loop
\* returns at the first threat that passes both tests.
isThreatPosition(threats, position, player) ==
  LET matches == {i \in 1..Len(threats) :
                    /\ ~(player # NULL /\ threats[i].player # player)
                    /\ threats[i].emptyCell.x = position.x
                    /\ threats[i].emptyCell.y = position.y
                    /\ threats[i].emptyCell.z = position.z}
  IN IF matches = {}
       THEN NullThreat
       ELSE threats[CHOOSE i \in matches : \A j \in matches : i <= j]

\* ---- the timeout skip (the state updater of the timeout effect) ---------
\* skipTurn without the test of the status.
skipTurn_Unguarded(prevState) ==
  LET skippedPlayer == prevState.currentPlayer IN
    [prevState EXCEPT
       !.currentPlayer = Opponent(skippedPlayer),
       !.moveHistory   = Append(prevState.moveHistory,
                                [player   |-> skippedPlayer,
                                 position |-> NullPos,
                                 type     |-> "skip"])]

\* skipTurn that records the player who receives the turn.
skipTurn_RecordsNextPlayer(prevState) ==
  IF prevState.status # "playing"
    THEN prevState
    ELSE LET skippedPlayer == prevState.currentPlayer IN
      [prevState EXCEPT
         !.currentPlayer = Opponent(skippedPlayer),
         !.moveHistory   = Append(prevState.moveHistory,
                                  [player   |-> Opponent(skippedPlayer),
                                   position |-> NullPos,
                                   type     |-> "skip"])]

skipTurn(prevState) ==
  IF prevState.status # "playing"
    THEN prevState
    ELSE LET skippedPlayer == prevState.currentPlayer IN
      [prevState EXCEPT
         !.currentPlayer = Opponent(skippedPlayer),
         !.moveHistory   = Append(prevState.moveHistory,
                                  [player   |-> skippedPlayer,
                                   position |-> NullPos,
                                   type     |-> "skip"])]

\* ---- replay (Game.tsx) ---------------------------------------------------
\* recordedMoves: the real moves of the history, skips filtered out
recordedMoves(state) == SelectSeq(state.moveHistory, isAppliedMove)

\* applyRecordedMove that leaves the turn to the engine's alternation.
applyRecordedMove_KeepsTurn(state, move) ==
  IF move.position = NullPos
    THEN state
    ELSE makeMove(state, move.position)

\* makeMove({ ...state, currentPlayer: move.player }, move.position)
applyRecordedMove(state, move) ==
  IF move.position = NullPos
    THEN state
    ELSE makeMove([state EXCEPT !.currentPlayer = move.player], move.position)

\* the loop of buildStateFromMoves from its i-th pass on (i from 1)
RECURSIVE buildFrom(_, _, _, _)
buildFrom(state, moves, i, count) ==
  IF i > count THEN state
  ELSE IF i <= Len(moves)
    THEN buildFrom(applyRecordedMove(state, moves[i]), moves, i + 1, count)
    ELSE buildFrom(state, moves, i + 1, count)

buildStateFromMoves(moves, count) ==
  buildFrom(createInitialState, moves, 1, count)

\* calculateWinningMoveIndex: the zero-based index of the first recorded move
\* after which the rebuilt state is won, -1 for null
calculateWinningMoveIndex(moves) ==
  LET wins == {i \in 1..Len(moves) :
                 buildStateFromMoves(moves, i).status = "win"}
  IN IF wins = {} THEN -1
     ELSE (CHOOSE i \in wins : \A j \in wins : i <= j) - 1

\* ---- the state of the Game component ------------------------------------
\* gameState is the state of the Game component (useState(createInitialState)).
\* evaluator is one use of the Rules Evaluator on a board given to it: the
\* board, how far the use has got, and what checkWinner, detectThreats and
\* getTotalWinningLines returned (totalLines is 0 until the call).
\* replayState and displayState are the replay mode with its step index and
\* the state shown on screen.
\* timer is the turn timer, followed in TimerSpec only: timeRemaining, the
\* state updates of gameState queued and not yet rendered, whether the
\* timeout effect of the last commit has still to run, and the player who
\* was on turn when the countdown reached 0 (kept for the properties; the
\* code does not store it).  timerEnabled is true in TimerSpec.
VARIABLES gameState, evaluator, replayState, displayState, timer

vars == << gameState, evaluator, replayState, displayState, timer >>

\* useState(turnTimeLimit), nothing queued
InitialTimer ==
  [ timeRemaining |-> TurnTimeLimit,
    queue         |-> << >>,
    effectPending |-> FALSE,
    expiredFor    |-> NULL ]

\* useState<ReplayState>({ mode: 'idle', stepIndex: 0, winningMoveIndex: null })
IdleReplay ==
  [ mode             |-> "idle",
    stepIndex        |-> 0,
    winningMoveIndex |-> -1 ]

IdleEvaluator ==
  [ board       |-> createEmptyBoard,
    pc          |-> "idle",
    winningLine |-> NullLine,
    threats     |-> << >>,
    totalLines  |-> 0 ]

PlayCells ==
  {p \in Positions :
     p.x + BOARD_SIZE * p.y + BOARD_SIZE * BOARD_SIZE * p.z < NumPlayCells}

NumSkips(history) ==
  Cardinality({i \in 1..Len(history) : history[i].type = "skip"})

\* A game played from createInitialState to its 60th move, X and O in turn,
\* that completes no line; the 4 cells left are the row (0..3,0,0).
LateGameMoves ==
  << <<0,1,0>>, <<1,1,0>>, <<2,1,0>>, <<2,2,0>>, <<3,1,0>>, <<0,3,0>>,
     <<0,2,0>>, <<1,3,0>>, <<1,2,0>>, <<1,0,1>>, <<3,2,0>>, <<2,0,1>>,
     <<2,3,0>>, <<1,1,1>>, <<3,3,0>>, <<2,1,1>>, <<0,0,1>>, <<3,1,1>>,
     <<3,0,1>>, <<0,2,1>>, <<0,1,1>>, <<1,2,1>>, <<2,2,1>>, <<3,2,1>>,
     <<1,3,1>>, <<0,3,1>>, <<2,3,1>>, <<3,3,1>>, <<0,0,2>>, <<2,0,2>>,
     <<1,0,2>>, <<3,0,2>>, <<0,1,2>>, <<1,1,2>>, <<2,1,2>>, <<3,1,2>>,
     <<1,2,2>>, <<0,2,2>>, <<0,3,2>>, <<2,2,2>>, <<3,3,2>>, <<3,2,2>>,
     <<1,0,3>>, <<1,3,2>>, <<3,0,3>>, <<2,3,2>>, <<1,1,3>>, <<0,0,3>>,
     <<2,1,3>>, <<2,0,3>>, <<2,2,3>>, <<0,1,3>>, <<3,2,3>>, <<3,1,3>>,
     <<0,3,3>>, <<0,2,3>>, <<1,3,3>>, <<1,2,3>>, <<3,3,3>>, <<2,3,3>> >>

\* moves[lo..hi] clicked in order from state, until the game is over (the
\* range is halved to keep the evaluation shallow).
RECURSIVE playMoves(_, _, _, _)
playMoves(state, moves, lo, hi) ==
  IF lo > hi \/ state.status # "playing" THEN state
  ELSE IF lo = hi
    THEN makeMove(state, Pos(moves[lo][1], moves[lo][2], moves[lo][3]))
  ELSE LET mid  == (lo + hi) \div 2
           left == playMoves(state, moves, lo, mid)
       IN IF left.status # "playing"
            THEN left
            ELSE playMoves(left, moves, mid + 1, hi)

LateGame == playMoves(createInitialState, LateGameMoves, 1, Len(LateGameMoves))

\* A game after 4 moves: X on (0,0,0) and (1,0,0), O on (0,1,0) and (1,1,0).
MidGameMoves == << <<0,0,0>>, <<0,1,0>>, <<1,0,0>>, <<1,1,0>> >>

MidGame == playMoves(createInitialState, MidGameMoves, 1, Len(MidGameMoves))

StartStates == {createInitialState, MidGame, LateGame}

Init ==
  /\ gameState \in StartStates
  /\ evaluator = IdleEvaluator
  /\ replayState = IdleReplay
  /\ timer = InitialTimer
  /\ displayState = gameState

\* The effect that copies gameState to displayState while not replaying.
SyncDisplay ==
  displayState' = IF replayState'.mode = "idle" THEN gameState' ELSE displayState

\* handleCellClick: setGameState(prev => makeMove(prev, position))
\* CellClick that takes the click during replay too.
CellClick_InReplay(cells) ==
  /\ \E position \in cells :
       gameState' = makeMove(gameState, position)
  /\ UNCHANGED << evaluator, replayState, timer >>
  /\ SyncDisplay

CellClick(cells) ==
  /\ replayState.mode = "idle"
  /\ \E position \in cells :
       gameState' = makeMove(gameState, position)
  /\ UNCHANGED << evaluator, replayState, timer >>
  /\ SyncDisplay

HandleCellClick == CellClick(PlayCells)

\* Undo is requested on an empty history, on a skip, or on a move made on
\* one of the PlayCells: the 60 moves that lead to LateGame are not undone.
UndoInBounds(history) ==
  IF Len(history) = 0
    THEN TRUE
    ELSE LET last == history[Len(history)]
         IN IF last.type = "skip" THEN TRUE ELSE last.position \in PlayCells

\* handleUndo: setGameState(prev => undoMove(prev))
HandleUndo ==
  /\ replayState.mode = "idle"
  /\ UndoInBounds(gameState.moveHistory)
  /\ gameState' = undoMove(gameState)
  /\ UNCHANGED << evaluator, replayState, timer >>
  /\ SyncDisplay

\* The timeout effect once the countdown has run out.
TimeoutSkip ==
  /\ gameState.status = "playing"
  /\ NumSkips(gameState.moveHistory) < MaxSkips
  /\ gameState' = skipTurn(gameState)
  /\ UNCHANGED << evaluator, replayState, timer >>
  /\ SyncDisplay

\* handleReset that does not leave the replay.
HandleReset_KeepsReplayMode ==
  /\ gameState' = createInitialState
  /\ displayState' = createInitialState
  /\ UNCHANGED << evaluator, replayState, timer >>

\* handleReset: replay mode idle at step 0, gameState and displayState
\* set to createInitialState()
HandleReset ==
  /\ replayState' = [replayState EXCEPT !.mode = "idle", !.stepIndex = 0]
  /\ gameState' = createInitialState
  /\ displayState' = createInitialState
  /\ UNCHANGED << evaluator, timer >>

Next ==
  \/ HandleCellClick
  \/ HandleUndo
  \/ TimeoutSkip
  \/ HandleReset

\* The live game: no replay is started.
Spec == Init /\ [][Next]_vars

\* ---- the replay controls -------------------------------------------------
HandleStartReplay ==
  /\ Len(recordedMoves(gameState)) # 0
  /\ replayState' =
       [ mode             |-> "replay-paused",
         stepIndex        |-> 0,
         winningMoveIndex |-> calculateWinningMoveIndex(recordedMoves(gameState)) ]
  /\ displayState' = createInitialState
  /\ UNCHANGED << gameState, evaluator, timer >>

\* stepToIndex(targetIndex)
stepToIndex(targetIndex) ==
  LET moves   == recordedMoves(gameState)
      clamped == IF targetIndex < 0 THEN 0
                 ELSE IF targetIndex > Len(moves) THEN Len(moves)
                 ELSE targetIndex
      winIndex         == replayState.winningMoveIndex
      shouldStopForWin == winIndex # -1 /\ clamped >= winIndex + 1
      isFinished       == clamped = Len(moves)
  IN /\ displayState' = buildStateFromMoves(moves, clamped)
     /\ replayState' =
          [replayState EXCEPT
             !.stepIndex = clamped,
             !.mode = IF isFinished THEN "replay-finished"
                      ELSE IF shouldStopForWin /\ replayState.mode = "replay-playing"
                        THEN "replay-paused"
                        ELSE replayState.mode]
     /\ UNCHANGED << gameState, evaluator, timer >>

HandleStepForward ==
  /\ replayState.mode # "idle"
  /\ stepToIndex(replayState.stepIndex + 1)

HandleStepBackward ==
  /\ replayState.mode # "idle"
  /\ stepToIndex(replayState.stepIndex - 1)

HandleExitReplay ==
  /\ replayState' = [replayState EXCEPT
                        !.mode = "idle",
                        !.stepIndex = Len(gameState.moveHistory)]
  /\ displayState' = gameState
  /\ UNCHANGED << gameState, evaluator, timer >>

HandleReplayPlay ==
  /\ replayState.mode # "idle"
  /\ replayState' = [replayState EXCEPT !.mode = "replay-playing"]
  /\ UNCHANGED << gameState, evaluator, displayState, timer >>

HandleReplayPause ==
  /\ replayState.mode # "idle"
  /\ replayState' = [replayState EXCEPT !.mode = "replay-paused"]
  /\ UNCHANGED << gameState, evaluator, displayState, timer >>

\* The autoplay interval: stepToIndex(replayStepRef.current + 1)
AutoplayTick ==
  /\ replayState.mode = "replay-playing"
  /\ stepToIndex(replayState.stepIndex + 1)

\* With the replay controls the clicks are drawn from the two cells that
\* MidGame leaves empty in the row (0..3,0,0).
ReplayCells == {Pos(2, 0, 0), Pos(3, 0, 0)}

ReplayCellClick == CellClick(ReplayCells)

ReplayInit ==
  /\ gameState \in {createInitialState, MidGame}
  /\ evaluator = IdleEvaluator
  /\ replayState = IdleReplay
  /\ timer = InitialTimer
  /\ displayState = gameState

ReplayNext ==
  \/ ReplayCellClick
  \/ HandleUndo
  \/ TimeoutSkip
  \/ HandleReset
  \/ HandleStartReplay
  \/ HandleStepForward
  \/ HandleStepBackward
  \/ HandleExitReplay
  \/ HandleReplayPlay
  \/ HandleReplayPause
  \/ AutoplayTick

\* The live game with the replay controls.
ReplaySpec == ReplayInit /\ [][ReplayNext]_vars

\* ---- the turn timer (timerEnabled) -----------------------------------------
\* A state update of gameState that waits for the next render: the updater
\* of a cell click or the updater of the timeout effect.
MoveUpdate(position) == [kind |-> "move", position |-> position]

SkipUpdate == [kind |-> "skip", position |-> NullPos]

applyUpdate(prevState, update) ==
  IF update.kind = "move"
    THEN makeMove(prevState, update.position)
    ELSE skipTurn(prevState)

\* The queued updaters applied in the order of their setGameState calls.
RECURSIVE applyQueue(_, _)
applyQueue(prevState, queue) ==
  IF queue = << >>
    THEN prevState
    ELSE applyQueue(applyUpdate(prevState, Head(queue)), Tail(queue))

\* The timeout effect, which reads the state of the last commit: the queue
\* after it has run.
afterTimeoutEffect(queue) ==
  IF ~timer.effectPending THEN queue
  ELSE IF gameState.status # "playing" THEN queue
  ELSE IF timer.timeRemaining > 0 THEN queue
  ELSE Append(queue, SkipUpdate)

\* A tick of the countdown interval and the commit of its update.  The
\* timeout effect is left to run when timeRemaining has changed to 0 (on
\* another value it returns at once).
CountdownTick ==
  /\ gameState.status = "playing"
  /\ timer.queue = << >>
  /\ ~timer.effectPending
  /\ NumSkips(gameState.moveHistory) < MaxSkips
  /\ LET prev == timer.timeRemaining
         next == IF prev <= 0 THEN 0 ELSE prev - 1
     IN timer' = [timer EXCEPT
                    !.timeRemaining = next,
                    !.effectPending = (next # prev /\ next <= 0),
                    !.expiredFor    = IF next # prev /\ next <= 0
                                        THEN gameState.currentPlayer
                                        ELSE timer.expiredFor]
  /\ UNCHANGED << gameState, evaluator, replayState, displayState >>

\* The timeout effect runs in its own task after the commit.
TimeoutEffect ==
  /\ timer.effectPending
  /\ timer' = [timer EXCEPT !.queue = afterTimeoutEffect(timer.queue),
                            !.effectPending = FALSE]
  /\ UNCHANGED << gameState, evaluator, replayState, displayState >>

\* handleCellClick with the timer enabled: the updater is queued.
TimerCellClick ==
  /\ replayState.mode = "idle"
  /\ Len(timer.queue) < MaxPending
  /\ \E position \in ReplayCells :
       timer' = [timer EXCEPT !.queue = Append(timer.queue, MoveUpdate(position))]
  /\ UNCHANGED << gameState, evaluator, replayState, displayState >>

\* The render of the queued updates.  An effect of the last commit that has
\* not run yet runs first; then the updaters are applied in order.  Each of
\* them comes with setTimeRemaining(turnTimeLimit).
Render ==
  /\ timer.queue # << >>
  /\ gameState' = applyQueue(gameState, afterTimeoutEffect(timer.queue))
  /\ timer' = [ timeRemaining |-> TurnTimeLimit,
                queue         |-> << >>,
                effectPending |-> FALSE,
                expiredFor    |-> NULL ]
  /\ UNCHANGED << evaluator, replayState >>
  /\ SyncDisplay

TimerInit ==
  /\ gameState \in {createInitialState, MidGame}
  /\ evaluator = IdleEvaluator
  /\ replayState = IdleReplay
  /\ displayState = gameState
  /\ timer = InitialTimer

TimerNext ==
  \/ CountdownTick
  \/ TimeoutEffect
  \/ TimerCellClick
  \/ Render

\* The live game with the turn timer enabled.
TimerSpec == TimerInit /\ [][TimerNext]_vars

\* ---- the Rules Evaluator on given boards -------------------------------
\* The straight lines of the grid, from geometry: 4 cells from p in steps of
\* d, all inside the grid.  Directions has one of d and -d.
Directions ==
  {d \in [x : -1..1, y : -1..1, z : -1..1] :
     \/ d.x = 1
     \/ d.x = 0 /\ d.y = 1
     \/ d.x = 0 /\ d.y = 0 /\ d.z = 1}

Step(p, d, i) == Pos(p.x + i * d.x, p.y + i * d.y, p.z + i * d.z)

GridLines ==
  {line \in {[i \in 1..BOARD_SIZE |-> Step(p, d, i - 1)] :
                p \in Positions, d \in Directions} :
     \A i \in 1..BOARD_SIZE : line[i] \in Positions}

CellsOf(line) == {line[i] : i \in 1..Len(line)}

\* board with the cells line[i..] set to fill[i..]
RECURSIVE OverlayFrom(_, _, _, _)
OverlayFrom(board, line, fill, i) ==
  IF i > Len(line)
    THEN board
    ELSE OverlayFrom(
           [board EXCEPT ![line[i].x][line[i].y][line[i].z] = fill[i]],
           line, fill, i + 1)

Overlay(board, line, fill) == OverlayFrom(board, line, fill, 1)

Fills == [1..BOARD_SIZE -> CellValue]

Owned(v) == [i \in 1..BOARD_SIZE |-> v]

\* The boards given to the evaluator: base with the cells of one line set
\* to any 4 values, and base with any line filled by one player and then a
\* line from the corner (0,0,0), one of each family, filled by one player.
OneLineBoards(base) ==
  {Overlay(base, l, f) : l \in GridLines, f \in Fills}

CornerLines == {l \in GridLines : l[1] = Pos(0, 0, 0)}

TwoLineBoards(base) ==
  {Overlay(Overlay(base, l1, Owned(v[1])), l2, Owned(v[2])) :
     l1 \in GridLines, l2 \in CornerLines,
     v \in {<<"X", "X">>, <<"O", "O">>, <<"X", "O">>}}

EvalInit ==
  /\ gameState = createInitialState
  /\ replayState = IdleReplay
  /\ timer = InitialTimer
  /\ displayState = createInitialState
  /\ \E b \in OneLineBoards(createEmptyBoard) \cup OneLineBoards(LateGame.board)
                \cup TwoLineBoards(createEmptyBoard) :
       evaluator = [IdleEvaluator EXCEPT !.board = b, !.pc = "given"]

CheckWinnerCall ==
  /\ evaluator.pc = "given"
  /\ evaluator' = [evaluator EXCEPT !.winningLine = checkWinner(evaluator.board),
                                    !.pc = "checked"]
  /\ UNCHANGED << gameState, replayState, displayState, timer >>

DetectThreatsCall ==
  /\ evaluator.pc = "checked"
  /\ evaluator' = [evaluator EXCEPT !.threats = detectThreats(evaluator.board),
                                    !.pc = "done"]
  /\ UNCHANGED << gameState, replayState, displayState, timer >>

GetTotalWinningLinesCall ==
  /\ evaluator.pc = "done"
  /\ evaluator' = [evaluator EXCEPT !.totalLines = getTotalWinningLines,
                                    !.pc = "counted"]
  /\ UNCHANGED << gameState, replayState, displayState, timer >>

EvalNext ==
  \/ CheckWinnerCall
  \/ DetectThreatsCall
  \/ GetTotalWinningLinesCall

EvalSpec == EvalInit /\ [][EvalNext]_vars

\* ==== properties of the game state (Spec) ================================
OccupiedCells(board) == {p \in Positions : Cell(board, p) # NULL}

MoveEntries(history) == {i \in 1..Len(history) : history[i].type = "move"}

SkipEntries(history) == {i \in 1..Len(history) : history[i].type = "skip"}

\* Some straight line of the grid holds 4 marks of one player.
OwnedBy(board, line, v) == \A i \in 1..Len(line) : Cell(board, line[i]) = v

OwnedLineExists(board) ==
  \E line \in GridLines : \E v \in Player : OwnedBy(board, line, v)

\* The step appends a move-kind entry: an accepted makeMove.
MoveAccepted ==
  /\ Len(gameState'.moveHistory) = Len(gameState.moveHistory) + 1
  /\ gameState'.moveHistory[Len(gameState'.moveHistory)].type = "move"

\* C1: in every reachable state the number of non-empty cells is moveCount,
\* the non-empty cells are exactly the positions of the move-kind entries of
\* the history, each holding the player of its entry, and a skip entry has
\* no position.
C1_BoardMatchesHistory ==
  LET h == gameState.moveHistory IN
    /\ Cardinality(OccupiedCells(gameState.board)) = gameState.moveCount
    /\ OccupiedCells(gameState.board) = {h[i].position : i \in MoveEntries(h)}
    /\ \A i \in MoveEntries(h) : Cell(gameState.board, h[i].position) = h[i].player
    /\ \A i \in SkipEntries(h) : h[i].position \notin Positions

\* A game from the empty board with a move after a skip.
C1_Witness ==
  LET h == gameState.moveHistory IN
    /\ gameState.moveCount >= 2
    /\ gameState.moveCount < NumPlayCells + 1
    /\ SkipEntries(h) # {}
    /\ h[Len(h)].type = "move"

\* C2: after an accepted makeMove the status is win if some line of the new
\* board is owned by one player, otherwise draw if all 64 cells are filled,
\* otherwise playing.
C2_StatusAfterMove ==
  [][MoveAccepted =>
       gameState'.status =
         IF OwnedLineExists(gameState'.board) THEN "win"
         ELSE IF OccupiedCells(gameState'.board) = Positions THEN "draw"
         ELSE "playing"]_vars

\* The 64th cell is filled and the move completes a line.
C2_Witness ==
  /\ gameState.status = "win"
  /\ OccupiedCells(gameState.board) = Positions

\* C8: in every reachable state whose status is win or draw the threat set
\* is empty.
C8_NoThreatsWhenOver ==
  gameState.status \in {"win", "draw"} => gameState.threats = << >>

\* A drawn game: the board is full and no line is owned.
C8_Witness ==
  /\ gameState.status = "draw"
  /\ ~OwnedLineExists(gameState.board)
  /\ gameState.threats = << >>

\* C9, as claimed: on every board on which checkWinner returns a line,
\* detectThreats returns no entries.
C9_Original ==
  checkWinner(gameState.board) # NullLine
    => detectThreats(gameState.board) = << >>

\* C9, amended: whenever checkWinner returns a line on the board of a
\* reachable state, the threat set kept in that state is empty (makeMove does
\* not call detectThreats then); detectThreats itself still returns the
\* 3-and-1 lines of such a board.
C9_NoThreatsKeptOnWonBoard ==
  checkWinner(gameState.board) # NullLine => gameState.threats = << >>

\* A won board on which detectThreats finds a threat, with none kept.
C9_Witness ==
  /\ checkWinner(gameState.board) # NullLine
  /\ detectThreats(gameState.board) # << >>
  /\ gameState.threats = << >>

\* C10: makeMove returns its input, equal in every field, whenever the
\* status is not playing or the target cell is occupied (any of the 64
\* cells); so does the same rejected move applied again.
C10_RejectedMoveIsNoOp ==
  \A p \in Positions :
    (gameState.status # "playing" \/ Cell(gameState.board, p) # NULL)
      => /\ makeMove(gameState, p) = gameState
         /\ makeMove(makeMove(gameState, p), p) = gameState

\* The game is won and a cell that could be clicked is still empty.
C10_Witness ==
  /\ gameState.status = "win"
  /\ \E p \in PlayCells : Cell(gameState.board, p) = NULL

\* ==== properties of the Rules Evaluator (EvalSpec) =======================
\* The family of a straight line, from its direction: 1 along x, 2 along y,
\* 3 along z, 4 diagonal in an XY plane, 5 in an XZ plane, 6 in a YZ plane,
\* 7 a space diagonal.
FamilyRank(line) ==
  LET dx == line[2].x # line[1].x
      dy == line[2].y # line[1].y
      dz == line[2].z # line[1].z
  IN IF dx /\ dy /\ dz THEN 7
     ELSE IF dy /\ dz THEN 6
     ELSE IF dx /\ dz THEN 5
     ELSE IF dx /\ dy THEN 4
     ELSE IF dz THEN 3
     ELSE IF dy THEN 2
     ELSE 1

IsOwned(board, line) == \E v \in Player : OwnedBy(board, line, v)

Evaluated == evaluator.pc \in {"checked", "done", "counted"}

Counted == evaluator.pc = "counted"

\* C3: on every board checkWinner returns a line if and only if some
\* straight line of the grid holds 4 equal marks, and then the returned
\* positions are such a line and the returned winner is the mark in its cells.
C3_WinnerIffOwnedLine ==
  Evaluated =>
    LET r == evaluator.winningLine
        b == evaluator.board
    IN /\ (r # NullLine) <=> OwnedLineExists(b)
       /\ r # NullLine =>
            /\ r.winner \in Player
            /\ \E l \in GridLines : CellsOf(l) = CellsOf(r.positions)
            /\ Len(r.positions) = BOARD_SIZE
            /\ \A i \in 1..Len(r.positions) : Cell(b, r.positions[i]) = r.winner

\* A board with many marks on which O owns a line.
C3_Witness ==
  /\ evaluator.pc = "checked"
  /\ evaluator.winningLine # NullLine
  /\ evaluator.winningLine.winner = "O"
  /\ Cardinality(OccupiedCells(evaluator.board)) > 2 * BOARD_SIZE

\* The families follow one another in ALL_WINNING_LINES.
FamilyByFamily ==
  \A j \in 1..Len(ALL_WINNING_LINES) : \A k \in j..Len(ALL_WINNING_LINES) :
    FamilyRank(ALL_WINNING_LINES[j]) <= FamilyRank(ALL_WINNING_LINES[k])

\* C4: the generated lines come family by family (rows, columns, pillars,
\* XY, XZ, YZ diagonals, space diagonals), and when several lines are owned
\* checkWinner returns the one generated first: no owned line is of an
\* earlier family or precedes it in ALL_WINNING_LINES.
C4_FirstInGenerationOrder ==
  /\ FamilyByFamily
  /\ (Evaluated /\ evaluator.winningLine # NullLine) =>
       LET r == evaluator.winningLine.positions
           b == evaluator.board
       IN /\ \A l \in GridLines : IsOwned(b, l) => FamilyRank(r) <= FamilyRank(l)
          /\ \E k \in 1..Len(ALL_WINNING_LINES) :
               /\ ALL_WINNING_LINES[k] = r
               /\ \A j \in 1..(k - 1) : ~IsOwned(b, ALL_WINNING_LINES[j])

\* Two lines of different families are owned and checkWinner has returned.
C4_Witness ==
  /\ evaluator.pc = "checked"
  /\ evaluator.winningLine # NullLine
  /\ \E l1 \in GridLines : \E l2 \in GridLines :
       /\ IsOwned(evaluator.board, l1)
       /\ IsOwned(evaluator.board, l2)
       /\ FamilyRank(l1) < FamilyRank(l2)

\* The generated lines are well formed: 4 pairwise distinct positions each,
\* every coordinate in 0..3, and no two lines with the same set of positions.
DistinctWellFormedLines ==
  LET lines == generateAllWinningLines IN
    /\ \A k \in 1..Len(lines) :
         /\ Len(lines[k]) = 4
         /\ \A i \in 1..Len(lines[k]) :
              /\ lines[k][i].x \in 0..3
              /\ lines[k][i].y \in 0..3
              /\ lines[k][i].z \in 0..3
         /\ Cardinality(CellsOf(lines[k])) = 4
    /\ \A j \in 1..Len(lines) : \A k \in 1..Len(lines) :
         j # k => CellsOf(lines[j]) # CellsOf(lines[k])

\* C5: generateAllWinningLines produces exactly 76 lines, getTotalWinningLines
\* returns 76, each line has 4 pairwise distinct positions with coordinates in
\* 0..3, and no two lines are equal as sets of positions.
C5_SeventySixDistinctLines ==
  Counted =>
    /\ evaluator.totalLines = 76
    /\ Len(generateAllWinningLines) = evaluator.totalLines
    /\ DistinctWellFormedLines

\* getTotalWinningLines has returned, after a win on the line generated last.
C5_Witness ==
  /\ Counted
  /\ evaluator.totalLines = Len(ALL_WINNING_LINES)
  /\ evaluator.winningLine # NullLine
  /\ evaluator.winningLine.positions = ALL_WINNING_LINES[evaluator.totalLines]

\* Every set {p + i*d : i in 0..3} inside the grid, d # 0 with components
\* in -1..1.
AllAlignments ==
  {cells \in {{Step(p, d, i) : i \in 0..(BOARD_SIZE - 1)} :
                p \in Positions,
                d \in [x : -1..1, y : -1..1, z : -1..1] \ {Pos(0, 0, 0)}} :
     cells \subseteq Positions}

LinesOfFamily(rank) ==
  {k \in 1..Len(ALL_WINNING_LINES) : FamilyRank(ALL_WINNING_LINES[k]) = rank}

\* C6: the generated lines are exactly the straight 4-cell alignments of the
\* grid, none missing and none extra: 16 along each axis, 8 diagonals for
\* each plane orientation, 4 space diagonals; so the line checkWinner returns
\* is an alignment, and no owned alignment goes unnoticed.
GeneratedAreTheAlignments ==
  /\ {CellsOf(ALL_WINNING_LINES[k]) : k \in 1..Len(ALL_WINNING_LINES)}
       = AllAlignments
  /\ \A rank \in 1..3 : Cardinality(LinesOfFamily(rank)) = 16
  /\ \A rank \in 4..6 : Cardinality(LinesOfFamily(rank)) = 8
  /\ Cardinality(LinesOfFamily(7)) = 4

C6_LinesAreTheAlignments ==
  Evaluated =>
    /\ GeneratedAreTheAlignments
    /\ evaluator.winningLine # NullLine
         => CellsOf(evaluator.winningLine.positions) \in AllAlignments
    /\ \A cells \in AllAlignments :
         (\E v \in Player : \A p \in cells : Cell(evaluator.board, p) = v)
           => evaluator.winningLine # NullLine

\* The evaluator has found a win on a diagonal inside a plane, on a board
\* filled along an alignment of the grid.
C6_Witness ==
  /\ evaluator.pc = "checked"
  /\ evaluator.winningLine # NullLine
  /\ FamilyRank(evaluator.winningLine.positions) \in 4..6
  /\ CellsOf(evaluator.winningLine.positions) \in AllAlignments

\* line has the empty cell e and 3 marks of v.
IsThreatAt(board, line, v, e) ==
  /\ Cell(board, line[e]) = NULL
  /\ \A i \in (1..Len(line)) \ {e} : Cell(board, line[i]) = v

\* C7: on every board detectThreats returns exactly one Threat for each line
\* with 3 cells of one player, none of the other and 1 empty cell, naming
\* that player and that empty cell, and no Threat for any other line.
C7_ThreatsAreTheThreeAndOneLines ==
  evaluator.pc = "done" =>
    LET ts == evaluator.threats
        b  == evaluator.board
    IN /\ \A l \in GridLines : \A v \in Player : \A e \in 1..Len(l) :
            IsThreatAt(b, l, v, e) =>
              \E k \in 1..Len(ts) :
                /\ CellsOf(ts[k].line) = CellsOf(l)
                /\ ts[k].player = v
                /\ ts[k].emptyCell = l[e]
                /\ \A j \in 1..Len(ts) :
                     CellsOf(ts[j].line) = CellsOf(l) => j = k
       /\ \A k \in 1..Len(ts) :
            \E l \in GridLines : \E e \in 1..Len(l) :
              /\ CellsOf(l) = CellsOf(ts[k].line)
              /\ IsThreatAt(b, l, ts[k].player, e)

\* detectThreats has returned threats of both players.
C7_Witness ==
  /\ evaluator.pc = "done"
  /\ \E j \in 1..Len(evaluator.threats) : evaluator.threats[j].player = "X"
  /\ \E k \in 1..Len(evaluator.threats) : evaluator.threats[k].player = "O"

\* ==== more properties of the game state (Spec) ===========================
\* C11: undoMove returns its input, equal in every field, when the history
\* is empty or the status is win.
C11_RejectedUndoIsNoOp ==
  (Len(gameState.moveHistory) = 0 \/ gameState.status = "win")
    => undoMove(gameState) = gameState

\* A won game whose last entry is a move that undo would otherwise remove.
C11_Witness ==
  /\ gameState.status = "win"
  /\ Len(gameState.moveHistory) > 0
  /\ gameState.moveHistory[Len(gameState.moveHistory)].position \in PlayCells
  /\ undoMove(gameState) = gameState

\* The marks of the move-kind entries among the first n entries of history.
MarksOf(history, n) ==
  [x \in Coord |-> [y \in Coord |-> [z \in Coord |->
     IF \E i \in 1..n : /\ history[i].type = "move"
                         /\ history[i].position = Pos(x, y, z)
       THEN history[CHOOSE i \in 1..n : /\ history[i].type = "move"
                                        /\ history[i].position = Pos(x, y, z)].player
       ELSE NULL]]]

\* The last move-kind entry among the first n entries of history, 0 if none.
LastMoveEntry(history, n) ==
  LET ms == {i \in 1..n : history[i].type = "move"}
  IN IF ms = {} THEN 0 ELSE CHOOSE i \in ms : \A j \in ms : j <= i

\* C12, as claimed: for every reachable playing state s and empty cell p
\* whose move does not win, undoMove(makeMove(s, p)) has the board, the
\* moveCount and the currentPlayer of s.
C12_UndoRestoresMover ==
  gameState.status = "playing" =>
    \A p \in Positions :
      LET moved  == makeMove(gameState, p)
          undone == undoMove(moved)
      IN (Cell(gameState.board, p) = NULL /\ moved.status # "win")
           => /\ undone.board = gameState.board
              /\ undone.moveCount = gameState.moveCount
              /\ undone.currentPlayer = gameState.currentPlayer

\* C13: an accepted undoMove (history not empty, status not win) removes
\* the last history entry and keeps the earlier ones in order; the board
\* holds exactly the marks of the remaining move-kind entries, moveCount is
\* their number, currentPlayer is the opponent of the last of them (X if
\* none remains), status is playing and winningLine is none.
C13_UndoRebuildsFromHistory ==
  LET h == gameState.moveHistory
      n == Len(h) - 1
      u == undoMove(gameState)
  IN (Len(h) > 0 /\ gameState.status # "win") =>
       /\ Len(u.moveHistory) = n
       /\ \A i \in 1..n : u.moveHistory[i] = h[i]
       /\ u.board = MarksOf(h, n)
       /\ u.moveCount = Cardinality({i \in 1..n : h[i].type = "move"})
       /\ u.currentPlayer = IF LastMoveEntry(h, n) = 0 THEN "X"
                             ELSE Opponent(h[LastMoveEntry(h, n)].player)
       /\ u.status = "playing"
       /\ u.winningLine = NullLine

\* Undo is accepted on a history that ends with a move made after a skip.
C13_Witness ==
  LET h == gameState.moveHistory IN
    /\ gameState.status = "playing"
    /\ Len(h) >= 3
    /\ h[Len(h)].type = "move"
    /\ h[Len(h) - 1].type = "skip"
    /\ h[Len(h) - 2].type = "move"

\* C14: undoMove applied to a reachable draw state gives status playing, 63
\* occupied cells and a board on which checkWinner finds no line.
C14_UndoFromDraw ==
  gameState.status = "draw" =>
    LET u == undoMove(gameState) IN
      /\ u.status = "playing"
      /\ Cardinality(OccupiedCells(u.board)) = 63
      /\ u.moveCount = 63
      /\ checkWinner(u.board) = NullLine
      /\ ~OwnedLineExists(u.board)

\* A drawn game whose 64th move undo takes back.
C14_Witness ==
  /\ gameState.status = "draw"
  /\ gameState.moveCount = 64
  /\ Len(undoMove(gameState).moveHistory) = Len(gameState.moveHistory) - 1

\* C15: once the status is win, makeMove on any cell, undoMove and the
\* timeout skip return the state unchanged, and a step either leaves every
\* field of the state as it is or is a reset to createInitialState.
C15_WinIsFinal ==
  [][gameState.status = "win" =>
       /\ \A p \in Positions : makeMove(gameState, p) = gameState
       /\ undoMove(gameState) = gameState
       /\ skipTurn(gameState) = gameState
       /\ gameState' = gameState \/ gameState' = createInitialState]_vars

\* A game won by O, after a skip.
C15_Witness ==
  /\ gameState.status = "win"
  /\ gameState.winningLine.winner = "O"
  /\ SkipEntries(gameState.moveHistory) # {}

\* The step appends a skip-kind entry.
SkipApplied ==
  /\ Len(gameState'.moveHistory) = Len(gameState.moveHistory) + 1
  /\ gameState'.moveHistory[Len(gameState'.moveHistory)].type = "skip"

\* C16: a timeout skip is applied only when the status is playing; it
\* appends one skip-kind entry without position for the current player,
\* flips currentPlayer, and leaves board, moveCount, status, winningLine,
\* threats and lastMovePosition unchanged; on another status the updater
\* returns its input.
C16_SkipFrame ==
  [][/\ SkipApplied =>
          /\ gameState.status = "playing"
          /\ SubSeq(gameState'.moveHistory, 1, Len(gameState.moveHistory))
               = gameState.moveHistory
          /\ gameState'.moveHistory[Len(gameState'.moveHistory)].player
               = gameState.currentPlayer
          /\ gameState'.moveHistory[Len(gameState'.moveHistory)].position
               \notin Positions
          /\ gameState'.currentPlayer = Opponent(gameState.currentPlayer)
          /\ gameState'.board = gameState.board
          /\ gameState'.moveCount = gameState.moveCount
          /\ gameState'.status = gameState.status
          /\ gameState'.winningLine = gameState.winningLine
          /\ gameState'.threats = gameState.threats
          /\ gameState'.lastMovePosition = gameState.lastMovePosition
     /\ gameState.status # "playing" => skipTurn(gameState) = gameState]_vars

\* A skip has been applied in a game with marks, threats and a last move.
C16_Witness ==
  LET h == gameState.moveHistory IN
    /\ Len(h) > 0
    /\ h[Len(h)].type = "skip"
    /\ gameState.threats # << >>
    /\ gameState.lastMovePosition \in Positions

\* C19: an accepted makeMove at p by the current player c changes the cell
\* p from empty to c and no other cell, appends the move entry (c, p) to
\* the history without altering the earlier entries, increases moveCount by
\* one, sets lastMovePosition to p and gives the turn to the other player,
\* also when the move wins.
C19_MoveFrame ==
  [][MoveAccepted =>
       LET h == gameState.moveHistory
           e == gameState'.moveHistory[Len(gameState'.moveHistory)]
           p == e.position
           c == gameState.currentPlayer
       IN /\ e.player = c
          /\ p \in Positions
          /\ Cell(gameState.board, p) = NULL
          /\ Cell(gameState'.board, p) = c
          /\ \A q \in Positions \ {p} :
               Cell(gameState'.board, q) = Cell(gameState.board, q)
          /\ SubSeq(gameState'.moveHistory, 1, Len(h)) = h
          /\ gameState'.moveCount = gameState.moveCount + 1
          /\ gameState'.lastMovePosition = p
          /\ gameState'.currentPlayer = Opponent(c)]_vars

\* A move has won and the turn is with the loser.
C19_Witness ==
  /\ gameState.status = "win"
  /\ gameState.lastMovePosition \in Positions
  /\ Cell(gameState.board, gameState.lastMovePosition)
       = gameState.winningLine.winner
  /\ gameState.currentPlayer = Opponent(gameState.winningLine.winner)

\* C20: whenever an accepted makeMove results in status win, the reported
\* winner is the player who made the move, and the reported line has 4
\* cells, all of that player, one of them the cell just played.
C20_WinnerIsTheMover ==
  [][(MoveAccepted /\ gameState'.status = "win") =>
       LET line == gameState'.winningLine
           p    == gameState'.lastMovePosition
       IN /\ line # NullLine
          /\ line.winner = gameState.currentPlayer
          /\ Len(line.positions) = BOARD_SIZE
          /\ \A i \in 1..Len(line.positions) :
               Cell(gameState'.board, line.positions[i]) = line.winner
          /\ \E i \in 1..Len(line.positions) : line.positions[i] = p]_vars

\* X on (0,0,0), (1,0,0), (2,0,0), O on (0,1,0), (1,1,0), then X on (3,0,0):
\* X has won on the line (0,0,0)..(3,0,0).
C20_Witness ==
  /\ gameState.status = "win"
  /\ gameState.winningLine
       = [positions |-> << Pos(0, 0, 0), Pos(1, 0, 0), Pos(2, 0, 0), Pos(3, 0, 0) >>,
          winner    |-> "X"]
  /\ gameState.lastMovePosition = Pos(3, 0, 0)
  /\ OccupiedCells(gameState.board)
       = {Pos(0, 0, 0), Pos(1, 0, 0), Pos(2, 0, 0), Pos(3, 0, 0),
          Pos(0, 1, 0), Pos(1, 1, 0)}
  /\ Cell(gameState.board, Pos(0, 1, 0)) = "O"
  /\ Cell(gameState.board, Pos(1, 1, 0)) = "O"

\* C23: in every reachable state with status playing the threat set is
\* detectThreats of the current board, the threats of both players whoever
\* is to move; after makeMove, after undoMove and after a timeout skip.
C23_ThreatsAreCurrent ==
  gameState.status = "playing" =>
    /\ gameState.threats = detectThreats(gameState.board)
    /\ \A l \in GridLines : \A v \in Player : \A e \in 1..Len(l) :
         IsThreatAt(gameState.board, l, v, e) =>
           \E k \in 1..Len(gameState.threats) :
             /\ gameState.threats[k].player = v
             /\ gameState.threats[k].emptyCell = l[e]

\* A skip has left the turn with a player while the other player's threat,
\* and one of the player's own, are listed.
C23_Witness ==
  LET h == gameState.moveHistory IN
    /\ gameState.status = "playing"
    /\ Len(h) > 0
    /\ h[Len(h)].type = "skip"
    /\ \E j \in 1..Len(gameState.threats) :
         gameState.threats[j].player = gameState.currentPlayer
    /\ \E k \in 1..Len(gameState.threats) :
         gameState.threats[k].player # gameState.currentPlayer

\* C24: in every reachable state the status is win if and only if
\* checkWinner of the board returns a line, winningLine is present if and
\* only if the status is win, and then it is what checkWinner returns.
C24_StatusMatchesBoard ==
  /\ (gameState.status = "win") <=> (checkWinner(gameState.board) # NullLine)
  /\ (gameState.winningLine # NullLine) <=> (gameState.status = "win")
  /\ gameState.winningLine # NullLine
       => gameState.winningLine = checkWinner(gameState.board)
  /\ (gameState.status = "win") <=> OwnedLineExists(gameState.board)

\* A game with a timeout skip in its history is won, and the line stored is
\* the one checkWinner finds on the board.
C24_Witness ==
  /\ gameState.status = "win"
  /\ gameState.winningLine # NullLine
  /\ gameState.winningLine = checkWinner(gameState.board)
  /\ SkipEntries(gameState.moveHistory) # {}

\* C25: in every reachable state moveCount is 64 if and only if isBoardFull
\* of the board is true, that is all 64 cells are non-empty.
C25_CountMatchesFullBoard ==
  /\ (gameState.moveCount = 64) <=> isBoardFull(gameState.board)
  /\ isBoardFull(gameState.board) <=> (OccupiedCells(gameState.board) = Positions)
  /\ Cardinality(Positions) = 64

\* The board is full after 64 moves and a skip.
C25_Witness ==
  /\ isBoardFull(gameState.board)
  /\ gameState.moveCount = 64
  /\ Len(gameState.moveHistory) > 64

\* C26, as claimed: in every reachable state currentPlayer is the opponent
\* of the player of the last history entry, move or skip, and X when the
\* history is empty; the players of consecutive entries alternate.
C26_TurnFollowsHistory ==
  LET h == gameState.moveHistory IN
    /\ gameState.currentPlayer =
         IF Len(h) = 0 THEN "X" ELSE Opponent(h[Len(h)].player)
    /\ \A i \in 1..(Len(h) - 1) : h[i + 1].player = Opponent(h[i].player)

\* C29: moveCount never exceeds 64 in a reachable state, a state with
\* moveCount 64 is terminal, and every accepted makeMove raises moveCount by
\* exactly one; so a sequence of accepted moves alone, from the initial
\* state, is terminal (win or draw) after at most 64 of them.
C29_GameEndsWithin64 ==
  /\ gameState.moveCount \in 0..64
  /\ gameState.moveCount = 64 => gameState.status \in {"win", "draw"}
  /\ \A p \in Positions :
       ~moveRejected(gameState, p) =>
         /\ gameState.status = "playing"
         /\ makeMove(gameState, p).moveCount = gameState.moveCount + 1

\* 64 accepted moves and nothing else have been made, and the game is a draw.
C29_Witness ==
  /\ gameState.moveCount = 64
  /\ Len(gameState.moveHistory) = 64
  /\ MoveEntries(gameState.moveHistory) = 1..64
  /\ gameState.status = "draw"

\* ==== properties of the replay (ReplaySpec) ==============================
\* The index in history of its k-th move-kind entry, 0 for k = 0.
KthMoveEntry(history, k) ==
  IF k = 0 THEN 0
  ELSE CHOOSE i \in MoveEntries(history) :
         Cardinality({j \in MoveEntries(history) : j <= i}) = k

\* C17: for the history of every reachable game, finished ones among them,
\* and every K from 0 to the number of real moves, the state built by
\* replaying the first K recorded moves has the board of live play after
\* the K-th real move (the marks of the history up to that entry), whatever
\* skips are interleaved; for K the number of real moves it is the live
\* board, and the state shown at replay step K has that board.
C17_ReplayReproducesBoards ==
  LET h     == gameState.moveHistory
      moves == recordedMoves(gameState)
      total == Cardinality(MoveEntries(h))
  IN /\ Len(moves) = total
     /\ \A K \in 0..total :
          buildStateFromMoves(moves, K).board = MarksOf(h, KthMoveEntry(h, K))
     /\ buildStateFromMoves(moves, total).board = gameState.board
     /\ replayState.mode # "idle" =>
          /\ replayState.stepIndex \in 0..total
          /\ displayState.board
               = MarksOf(h, KthMoveEntry(h, replayState.stepIndex))

\* The replay of a won game has stepped to its last move, which was made
\* after a skip.
C17_Witness ==
  LET h == gameState.moveHistory IN
    /\ gameState.status = "win"
    /\ replayState.mode # "idle"
    /\ replayState.stepIndex = Cardinality(MoveEntries(h))
    /\ displayState.status = "win"
    /\ \E i \in SkipEntries(h) : i < KthMoveEntry(h, replayState.stepIndex)

\* A fresh game: playing, 64 empty cells, X to move, no moves, no history, no
\* threats, no winning line, no last move position.
Fresh(state) ==
  /\ state.status = "playing"
  /\ \A p \in Positions : Cell(state.board, p) = NULL
  /\ Cardinality(Positions) = 64
  /\ state.currentPlayer = "X"
  /\ state.moveCount = 0
  /\ state.moveHistory = << >>
  /\ state.threats = << >>
  /\ state.winningLine = NullLine
  /\ state.lastMovePosition = NullPos

\* C18: createInitialState is a fresh game, and a reset from any state, also
\* during replay, leaves a fresh game as the live and as the shown state,
\* with the replay mode idle.
C18_ResetGivesFreshGame ==
  [][/\ Fresh(createInitialState)
     /\ HandleReset =>
          /\ Fresh(gameState')
          /\ Fresh(displayState')
          /\ replayState'.mode = "idle"]_vars

\* A fresh game after the replay of a won game: the winning move index of
\* that replay is still kept.
C18_Witness ==
  /\ Fresh(gameState)
  /\ displayState = gameState
  /\ replayState.mode = "idle"
  /\ replayState.winningMoveIndex >= 0

\* A step of the replay: a step button or the autoplay interval.
ReplayStep == HandleStepForward \/ HandleStepBackward \/ AutoplayTick

\* While the replay mode is not idle the live game changes by a timeout skip
\* or a reset only: no click and no undo reaches it.
LiveGameShielded ==
  (replayState.mode # "idle" /\ gameState' # gameState) =>
    \/ gameState.status = "playing" /\ gameState' = skipTurn(gameState)
    \/ gameState' = createInitialState /\ replayState'.mode = "idle"

\* A replay step keeps the live game and the winning move index, and leaves
\* the step index within 0..number of recorded real moves.
ReplayStepFrame ==
  ReplayStep =>
    /\ gameState' = gameState
    /\ replayState'.winningMoveIndex = replayState.winningMoveIndex
    /\ replayState'.stepIndex \in 0..Len(recordedMoves(gameState))
    /\ replayState'.mode # "idle"

\* Exiting the replay shows the live game again.
ExitShowsLiveGame ==
  HandleExitReplay =>
    /\ gameState' = gameState
    /\ displayState' = gameState
    /\ replayState'.mode = "idle"

NewSkips ==
  {i \in (Len(gameState.moveHistory) + 1)..Len(gameState'.moveHistory) :
     gameState'.moveHistory[i].type = "skip"}

\* C27, as claimed: a step appends at most one skip entry, and only after the
\* countdown has reached 0 with status playing; the entry is attributed to
\* the player who was on turn when the countdown reached 0, also when a cell
\* click arrives around the expiry, and the countdown is reset to the limit.
C27_SkipHitsExpiredPlayer ==
  [][/\ Cardinality(NewSkips) <= 1
     /\ \A i \in NewSkips :
          /\ gameState.status = "playing"
          /\ timer.timeRemaining = 0
          /\ gameState'.moveHistory[i].player = timer.expiredFor
          /\ timer'.timeRemaining = TurnTimeLimit]_vars

\* ==== properties of the presentation helpers (Spec) ======================
\* C21: isWinningPosition(winningLine, p) is true if and only if winningLine
\* is not none and p is one of its 4 positions.
C21_WinningPositionIffMember ==
  \A p \in Positions :
    isWinningPosition(gameState.winningLine, p)
      <=> /\ gameState.winningLine # NullLine
          /\ p \in CellsOf(gameState.winningLine.positions)
          /\ Cardinality(CellsOf(gameState.winningLine.positions)) = 4

\* A won game: the cell just played is a winning position, and there is a
\* cell of the winner outside the line.
C21_Witness ==
  /\ gameState.winningLine # NullLine
  /\ isWinningPosition(gameState.winningLine, gameState.lastMovePosition)
  /\ \E p \in Positions :
       /\ Cell(gameState.board, p) = gameState.winningLine.winner
       /\ ~isWinningPosition(gameState.winningLine, p)

\* The threats of the sequence on the cell p that pass the filter (NULL: no
\* filter).
ThreatsOn(threats, p, player) ==
  {i \in 1..Len(threats) :
     /\ threats[i].emptyCell = p
     /\ player \in Player => threats[i].player = player}

\* C22 (EvalSpec, on what detectThreats returned): isThreatPosition(threats,
\* p, player) returns a Threat if and only if some threat of the set has
\* emptyCell p and, when a player is given, belongs to that player; it
\* returns the first such threat of the set, so without a filter a cell
\* threatened by both players reports the first only.
C22_FirstThreatOnCell ==
  evaluator.pc = "done" =>
    \A p \in Positions : \A player \in Player \cup {NULL} :
      LET ts == evaluator.threats
          on == ThreatsOn(ts, p, player)
          r  == isThreatPosition(ts, p, player)
      IN /\ (r # NullThreat) <=> (on # {})
         /\ on # {} =>
              \E i \in on : r = ts[i] /\ \A j \in on : i <= j

\* A cell is threatened by both players: the threat reported without a
\* filter is that of one player, not the one reported for the other.
C22_Witness ==
  /\ evaluator.pc = "done"
  /\ \E p \in Positions :
       /\ ThreatsOn(evaluator.threats, p, "X") # {}
       /\ ThreatsOn(evaluator.threats, p, "O") # {}
       /\ \E player \in Player :
            isThreatPosition(evaluator.threats, p, NULL)
              # isThreatPosition(evaluator.threats, p, player)

====
